---- MODULE Spec2Model ----
(***************************************************************************)
(* Model of the x402 chain adapters of @dock402/x402-sdk:                  *)
(*   src/src/types/evm-payment.ts  (EVM adapter, Solana adapter and the    *)
(*   protocol types, concatenated in one file).                            *)
(*                                                                         *)
(* JavaScript values are modelled as tagged records so that `undefined`,   *)
(* strings and objects can be compared with each other the way `===` does: *)
(*   Undefined            the value undefined                              *)
(*   Str(s)               a string; s is the sequence of its characters    *)
(*                        (enumerated literals such as network names are   *)
(*                        kept as one atom)                                *)
(*   [t |-> "object",...] an object with the listed own properties         *)
(***************************************************************************)
EXTENDS Integers, Sequences, FiniteSets, TLC

VARIABLES proof, spec, rpcUrl, recentBlockhash, feePayer, op, result,
          pc, paymentHeader, verified, logic, settle, status

\* arguments and result of one call of an adapter function
adapterVars == <<proof, spec, rpcUrl, recentBlockhash, feePayer, op, result>>

\* the requests a server route is handling
serverVars == <<pc, paymentHeader, verified, logic, settle, status>>

vars == <<adapterVars, serverVars>>

(***************************************************************************)
(* Bounds                                                                  *)
(***************************************************************************)
\* amounts "1" .. MaxAmount are drawn as price.amount / proof.amount
MaxAmount == 2

\* requests a server route handles concurrently
NumRequests == 3

(***************************************************************************)
(* JavaScript values                                                       *)
(***************************************************************************)
Undefined == [t |-> "undefined"]

Str(s) == [t |-> "string", v |-> s]

IsString(x) == x.t = "string"

\* o.f for an object o: an own property, or undefined when o has none
Get(o, f) == IF f \in DOMAIN o THEN o[f] ELSE Undefined

\* reading a property of undefined raises a TypeError
ReadThrows(o) == o.t = "undefined"

\* !!x for the values used here: strings are truthy unless empty
Truthy(x) ==
    CASE x.t = "undefined" -> FALSE
      [] x.t = "string" -> x.v # <<>>
      [] OTHER -> TRUE

\* completion of a function body: a returned value or a thrown error
Normal(v) == [type |-> "normal", value |-> v]

Throw(e) == [type |-> "throw", error |-> e]

\* settlement of the promise an async function returns
Fulfilled(v) == [state |-> "fulfilled", value |-> v]

Rejected(e) == [state |-> "rejected", reason |-> e]

(***************************************************************************)
(* Strings                                                                 *)
(***************************************************************************)
UpperLetters ==
    <<"A", "B", "C", "D", "E", "F", "G", "H", "I", "J", "K", "L", "M",
      "N", "O", "P", "Q", "R", "S", "T", "U", "V", "W", "X", "Y", "Z">>

LowerLetters ==
    <<"a", "b", "c", "d", "e", "f", "g", "h", "i", "j", "k", "l", "m",
      "n", "o", "p", "q", "r", "s", "t", "u", "v", "w", "x", "y", "z">>

LowerChar(c) ==
    IF \E i \in 1..26 : UpperLetters[i] = c
    THEN LowerLetters[CHOOSE i \in 1..26 : UpperLetters[i] = c]
    ELSE c

\* String.prototype.toLowerCase on the characters of a string
toLowerCase(s) == [i \in 1..Len(s) |-> LowerChar(s[i])]

\* n copies of the string s
Repeat(s, n) == [i \in 1..(n * Len(s)) |-> s[((i - 1) % Len(s)) + 1]]

\* String.prototype.padStart(n, c): pads on the left, never truncates
padStart(s, n, c) == IF Len(s) >= n THEN s ELSE Repeat(<<c>>, n - Len(s)) \o s

\* String.prototype.slice(k) for 0 <= k
slice(s, k) == IF k >= Len(s) THEN <<>> ELSE SubSeq(s, k + 1, Len(s))

DecimalDigits == <<"0", "1", "2", "3", "4", "5", "6", "7", "8", "9">>

RECURSIVE NatToDec(_)
NatToDec(n) ==
    IF n < 10 THEN <<DecimalDigits[n + 1]>>
    ELSE NatToDec(n \div 10) \o <<DecimalDigits[(n % 10) + 1]>>

(***************************************************************************)
(* Addresses and other string inputs                                       *)
(***************************************************************************)
ZeroAddress == <<"0", "x">> \o Repeat(<<"0">>, 40)

EvmA == <<"0", "x">> \o Repeat(<<"A", "b">>, 20)

EvmB == <<"0", "x">> \o Repeat(<<"c", "1">>, 20)

SolA == Repeat(<<"S", "o", "L", "a">>, 8)

SolB == Repeat(<<"B", "o", "b", "4">>, 8)

SolPayer == Repeat(<<"P", "a", "y", "r">>, 8)

UsdcBase ==
    <<"0", "x", "8", "3", "3", "5", "8", "9", "f", "C", "D", "6", "e", "D",
      "b", "6", "E", "0", "8", "f", "4", "c", "7", "C", "3", "2", "D", "4",
      "f", "7", "1", "b", "5", "4", "b", "d", "A", "0", "2", "9", "1", "3">>

UsdcSolana ==
    <<"E", "P", "j", "F", "W", "d", "d", "5", "A", "u", "f", "q", "S", "S",
      "q", "e", "M", "2", "q", "N", "1", "x", "z", "y", "b", "a", "p", "C",
      "8", "G", "4", "w", "E", "G", "G", "k", "Z", "w", "y", "T", "D", "t",
      "1", "v">>

NativeSentinel == <<"n", "a", "t", "i", "v", "e">>

EVMNetwork == {"base-mainnet", "base-sepolia", "polygon", "bsc", "sei", "peaq"}

SolanaNetwork == {"solana-mainnet", "solana-devnet"}

X402Network == EVMNetwork \cup SolanaNetwork

ConfirmationStatus == {"processed", "confirmed", "finalized"}

(***************************************************************************)
(* EVM adapter: createEVMTransactionRequest                                *)
(***************************************************************************)
DigitValue(c) == (CHOOSE i \in 1..10 : DecimalDigits[i] = c) - 1

RECURSIVE StripLeadingZeros(_)
StripLeadingZeros(ds) ==
    IF ds # <<>> /\ Head(ds) = 0 THEN StripLeadingZeros(Tail(ds)) ELSE ds

\* BigInt(amount) for a string of decimal digits ("" is 0n): an unbounded
\* integer, kept as its digits in base 10^4 (four decimal digits to a limb),
\* most significant first, <<>> for 0
BigInt(s) ==
    LET n == (Len(s) + 3) \div 4
        digit(i) == IF i >= 1 THEN DigitValue(s[i]) ELSE 0
        limb(k) == LET e == Len(s) - 4 * (n - k)
                   IN  digit(e - 3) * 1000 + digit(e - 2) * 100
                         + digit(e - 1) * 10 + digit(e)
    IN  StripLeadingZeros([k \in 1..n |-> limb(k)])

\* long division of the limbs ls by the small number d: the quotient's limbs
\* and the remainder
RECURSIVE LongDiv(_, _)
LongDiv(ls, d) ==
    IF ls = <<>> THEN [q |-> <<>>, r |-> 0]
    ELSE LET prev == LongDiv(SubSeq(ls, 1, Len(ls) - 1), d)
             cur  == prev.r * 10000 + ls[Len(ls)]
         IN  [q |-> Append(prev.q, cur \div d), r |-> cur % d]

\* the digits of n in the given base, least significant first
RECURSIVE DigitsLE(_, _)
DigitsLE(n, base) ==
    IF n = <<>> THEN <<>>
    ELSE LET qr == LongDiv(n, base)
         IN  <<qr.r>> \o DigitsLE(StripLeadingZeros(qr.q), base)

HexDigits ==
    <<"0", "1", "2", "3", "4", "5", "6", "7", "8", "9",
      "a", "b", "c", "d", "e", "f">>

\* the four hex digits of a number below 16^4
Hex4(x) ==
    <<HexDigits[(x \div 4096) + 1], HexDigits[((x \div 256) % 16) + 1],
      HexDigits[((x \div 16) % 16) + 1], HexDigits[(x % 16) + 1]>>

RECURSIVE StripLeadingChar(_, _)
StripLeadingChar(s, c) ==
    IF Len(s) > 1 /\ Head(s) = c THEN StripLeadingChar(Tail(s), c) ELSE s

RECURSIVE Flatten(_)
Flatten(ss) == IF ss = <<>> THEN <<>> ELSE Head(ss) \o Flatten(Tail(ss))

\* BigInt.prototype.toString(16): the hex digits of n without leading zeros,
\* taken four at a time
toString16(n) ==
    IF n = <<>> THEN <<"0">>
    ELSE LET le == DigitsLE(n, 65536)
         IN  StripLeadingChar(
                 Flatten([i \in 1..Len(le) |-> Hex4(le[Len(le) + 1 - i])]), "0")

FunctionSelector == <<"0", "x", "a", "9", "0", "5", "9", "c", "b", "b">>

encodeERC20Transfer_KeepPrefix(to, amount) ==
    LET paddedAddress == padStart(to, 64, "0")
        paddedAmount  == padStart(toString16(BigInt(amount)), 64, "0")
    IN  FunctionSelector \o paddedAddress \o paddedAmount

encodeERC20Transfer(to, amount) ==
    LET paddedAddress == padStart(slice(to, 2), 64, "0")
        paddedAmount  == padStart(toString16(BigInt(amount)), 64, "0")
    IN  FunctionSelector \o paddedAddress \o paddedAmount

Num(n) == [t |-> "number", v |-> n]

\* export const CHAIN_IDS
CHAIN_IDS ==
    [BASE_MAINNET |-> 8453, BASE_SEPOLIA |-> 84532, POLYGON |-> 137,
     BSC |-> 56, BSC_TESTNET |-> 97, SEI |-> 1329, PEAQ |-> 3338]

chainIds_BscTestnet ==
    [n \in EVMNetwork |->
        CASE n = "base-mainnet" -> 8453
          [] n = "base-sepolia" -> 84532
          [] n = "polygon" -> 137
          [] n = "bsc" -> 97
          [] n = "sei" -> 1329
          [] n = "peaq" -> 3338]

chainIds ==
    [n \in EVMNetwork |->
        CASE n = "base-mainnet" -> 8453
          [] n = "base-sepolia" -> 84532
          [] n = "polygon" -> 137
          [] n = "bsc" -> 56
          [] n = "sei" -> 1329
          [] n = "peaq" -> 3338]

\* chainIds[network]: a key the table lacks reads as undefined, nothing is
\* thrown
getChainId(network) ==
    IF network \in DOMAIN chainIds THEN Num(chainIds[network]) ELSE Undefined

isNativeToken_AbsentOnly(s) == ~Truthy(Get(s.price, "asset"))

isNativeToken(s) ==
    \/ ~Truthy(Get(s.price, "asset"))
    \/ Get(s.price, "asset").address = Str(ZeroAddress)

createEVMTransactionRequest(s) ==
    IF isNativeToken(s)
    THEN Normal([t |-> "object",
                 to |-> s.recipient.address,
                 value |-> s.price.amount,
                 chainId |-> getChainId(s.network.v)])
    ELSE Normal([t |-> "object",
                 to |-> s.price.asset.address,
                 data |-> Str(encodeERC20Transfer(s.recipient.address.v,
                                                  s.price.amount.v)),
                 chainId |-> getChainId(s.network.v)])

(***************************************************************************)
(* Solana adapter: createSolanaTransactionRequest                          *)
(***************************************************************************)
SystemProgram == Repeat(<<"1">>, 32)

TokenProgram ==
    <<"T", "o", "k", "e", "n", "k", "e", "g", "Q", "f", "e", "Z", "y", "i",
      "N", "w", "A", "J", "b", "N", "b", "G", "K", "P", "F", "X", "C", "W",
      "u", "B", "v", "f", "9", "S", "s", "6", "2", "3", "V", "Q", "5", "D",
      "A">>

\* DataView.setBigUint64(offset, v, true): the low 64 bits of v as 8 bytes,
\* least significant first (the value is reduced modulo 2^64)
BigUint64LE(n) ==
    LET le == DigitsLE(n, 256)
    IN  [i \in 1..8 |-> IF i <= Len(le) THEN le[i] ELSE 0]

encodeSOLTransfer(amount) ==
    LET instruction == 2
        lamports == BigInt(amount)
    IN  <<instruction, 0, 0, 0>> \o BigUint64LE(lamports)

encodeSPLTokenTransfer(amount) ==
    LET instruction == 3
        tokenAmount == BigInt(amount)
    IN  <<instruction>> \o BigUint64LE(tokenAmount)

getAssociatedTokenAddress_OwnerOnly(owner, mint) == owner

getAssociatedTokenAddress(owner, mint) ==
    owner \o <<"_">> \o mint \o <<"_", "a", "t", "a">>

AccountMeta(pubkey, isSigner, isWritable) ==
    [pubkey |-> pubkey, isSigner |-> isSigner, isWritable |-> isWritable]

isNativeSOL_AbsentOnly(s) == ~Truthy(Get(s.price, "asset"))

isNativeSOL(s) ==
    \/ ~Truthy(Get(s.price, "asset"))
    \/ Get(s.price, "asset").address = Str(NativeSentinel)

createSolanaTransactionRequest(s, blockhash, payer) ==
    IF isNativeSOL(s)
    THEN Normal([t |-> "object",
                 recentBlockhash |-> blockhash,
                 feePayer |-> payer,
                 instructions |-> <<
                   [programId |-> Str(SystemProgram),
                    keys |-> <<AccountMeta(payer, TRUE, TRUE),
                               AccountMeta(s.recipient.address, FALSE, TRUE)>>,
                    data |-> encodeSOLTransfer(s.price.amount.v)] >>])
    ELSE Normal([t |-> "object",
                 recentBlockhash |-> blockhash,
                 feePayer |-> payer,
                 instructions |-> <<
                   [programId |-> Str(TokenProgram),
                    keys |-> <<AccountMeta(Str(getAssociatedTokenAddress(
                                   payer.v, s.price.asset.address.v)), FALSE, TRUE),
                               AccountMeta(s.price.asset.address, FALSE, FALSE),
                               AccountMeta(Str(getAssociatedTokenAddress(
                                   s.recipient.address.v, s.price.asset.address.v)),
                                   FALSE, TRUE),
                               AccountMeta(payer, TRUE, FALSE)>>,
                    data |-> encodeSPLTokenTransfer(s.price.amount.v)] >>])

(***************************************************************************)
(* EVM adapter: verifyEVMPayment                                           *)
(***************************************************************************)
\* the expression in the try block; && evaluates left to right and stops at
\* the first false operand, a property read of undefined or a call of
\* toLowerCase on a non-string raises a TypeError
verifyEVMPaymentBody_NoNetworkCheck(p, s) ==
    IF ReadThrows(p) THEN Throw("TypeError")
    ELSE IF ~IsString(Get(p, "to")) THEN Throw("TypeError")
    ELSE IF ReadThrows(Get(s, "recipient")) THEN Throw("TypeError")
    ELSE IF ~IsString(Get(s.recipient, "address")) THEN Throw("TypeError")
    ELSE IF toLowerCase(p.to.v) # toLowerCase(s.recipient.address.v) THEN Normal(FALSE)
    ELSE IF ReadThrows(Get(s, "price")) THEN Throw("TypeError")
    ELSE IF Get(p, "amount") # Get(s.price, "amount") THEN Normal(FALSE)
    ELSE Normal(Truthy(Get(p, "txHash")))

verifyEVMPaymentBody_NumericAmount(p, s) ==
    IF ReadThrows(p) THEN Throw("TypeError")
    ELSE IF ~IsString(Get(p, "to")) THEN Throw("TypeError")
    ELSE IF ReadThrows(Get(s, "recipient")) THEN Throw("TypeError")
    ELSE IF ~IsString(Get(s.recipient, "address")) THEN Throw("TypeError")
    ELSE IF toLowerCase(p.to.v) # toLowerCase(s.recipient.address.v) THEN Normal(FALSE)
    ELSE IF ReadThrows(Get(s, "price")) THEN Throw("TypeError")
    ELSE IF BigInt(Get(p, "amount").v) # BigInt(Get(s.price, "amount").v) THEN Normal(FALSE)
    ELSE IF Get(p, "network") # Get(s, "network") THEN Normal(FALSE)
    ELSE Normal(Truthy(Get(p, "txHash")))

verifyEVMPaymentBody(p, s) ==
    IF ReadThrows(p) THEN Throw("TypeError")
    ELSE IF ~IsString(Get(p, "to")) THEN Throw("TypeError")
    ELSE IF ReadThrows(Get(s, "recipient")) THEN Throw("TypeError")
    ELSE IF ~IsString(Get(s.recipient, "address")) THEN Throw("TypeError")
    ELSE IF toLowerCase(p.to.v) # toLowerCase(s.recipient.address.v) THEN Normal(FALSE)
    ELSE IF ReadThrows(Get(s, "price")) THEN Throw("TypeError")
    ELSE IF Get(p, "amount") # Get(s.price, "amount") THEN Normal(FALSE)
    ELSE IF Get(p, "network") # Get(s, "network") THEN Normal(FALSE)
    ELSE Normal(Truthy(Get(p, "txHash")))

\* try { return <body> } catch (error) { console.error(...); return false }
verifyEVMPayment_NoCatch(p, s, url) ==
    LET c == verifyEVMPaymentBody(p, s)
    IN  IF c.type = "throw" THEN Rejected(c.error) ELSE Fulfilled(c.value)

verifyEVMPayment(p, s, url) ==
    LET c == verifyEVMPaymentBody(p, s)
    IN  IF c.type = "throw" THEN Fulfilled(FALSE) ELSE Fulfilled(c.value)

(***************************************************************************)
(* Solana adapter: verifySolanaPayment                                     *)
(***************************************************************************)
verifySolanaPaymentBody_NoFinalityCheck(p, s) ==
    IF ReadThrows(p) THEN Throw("TypeError")
    ELSE IF ~IsString(Get(p, "to")) THEN Throw("TypeError")
    ELSE IF ReadThrows(Get(s, "recipient")) THEN Throw("TypeError")
    ELSE IF ~IsString(Get(s.recipient, "address")) THEN Throw("TypeError")
    ELSE IF toLowerCase(p.to.v) # toLowerCase(s.recipient.address.v) THEN Normal(FALSE)
    ELSE IF ReadThrows(Get(s, "price")) THEN Throw("TypeError")
    ELSE IF Get(p, "amount") # Get(s.price, "amount") THEN Normal(FALSE)
    ELSE IF Get(p, "network") # Get(s, "network") THEN Normal(FALSE)
    ELSE Normal(Truthy(Get(p, "signature")))

verifySolanaPaymentBody_UsesTxHash(p, s) ==
    IF ReadThrows(p) THEN Throw("TypeError")
    ELSE IF ~IsString(Get(p, "to")) THEN Throw("TypeError")
    ELSE IF ReadThrows(Get(s, "recipient")) THEN Throw("TypeError")
    ELSE IF ~IsString(Get(s.recipient, "address")) THEN Throw("TypeError")
    ELSE IF toLowerCase(p.to.v) # toLowerCase(s.recipient.address.v) THEN Normal(FALSE)
    ELSE IF ReadThrows(Get(s, "price")) THEN Throw("TypeError")
    ELSE IF Get(p, "amount") # Get(s.price, "amount") THEN Normal(FALSE)
    ELSE IF Get(p, "network") # Get(s, "network") THEN Normal(FALSE)
    ELSE IF ~Truthy(Get(p, "txHash")) THEN Normal(FALSE)
    ELSE Normal(Get(p, "confirmationStatus") = Str("finalized"))

verifySolanaPaymentBody(p, s) ==
    IF ReadThrows(p) THEN Throw("TypeError")
    ELSE IF ~IsString(Get(p, "to")) THEN Throw("TypeError")
    ELSE IF ReadThrows(Get(s, "recipient")) THEN Throw("TypeError")
    ELSE IF ~IsString(Get(s.recipient, "address")) THEN Throw("TypeError")
    ELSE IF toLowerCase(p.to.v) # toLowerCase(s.recipient.address.v) THEN Normal(FALSE)
    ELSE IF ReadThrows(Get(s, "price")) THEN Throw("TypeError")
    ELSE IF Get(p, "amount") # Get(s.price, "amount") THEN Normal(FALSE)
    ELSE IF Get(p, "network") # Get(s, "network") THEN Normal(FALSE)
    ELSE IF ~Truthy(Get(p, "signature")) THEN Normal(FALSE)
    ELSE Normal(Get(p, "confirmationStatus") = Str("finalized"))

verifySolanaPayment_ChecksEndpoint(p, s, url) ==
    LET c == verifySolanaPaymentBody(p, s)
    IN  IF c.type = "throw" \/ url # Str("https://api.mainnet-beta.solana.com")
        THEN Fulfilled(FALSE)
        ELSE Fulfilled(c.value)

verifySolanaPayment(p, s, url) ==
    LET c == verifySolanaPaymentBody(p, s)
    IN  IF c.type = "throw" THEN Fulfilled(FALSE) ELSE Fulfilled(c.value)

(***************************************************************************)
(* Inputs                                                                  *)
(***************************************************************************)
AmountStrings == {NatToDec(n) : n \in 1..MaxAmount}

\* the price quoted by the README examples, 0.01 ETH in wei
QuotedWei == <<"1">> \o Repeat(<<"0">>, 16)

EvmALower == <<"0", "x">> \o Repeat(<<"a", "b">>, 20)

SolALower == Repeat(<<"s", "o", "l", "a">>, 8)

TxId == <<"0", "x", "7", "f">>

\* the amount 1 written with a leading zero
PaddedOne == <<"0", "1">>

\* the fields of a proof that say who paid and when: from, timestamp and
\* blockNumber (slot for Solana)
EVMSenders == {<<EvmB, 1700000000, 100>>, <<EvmA, 1700000600, 101>>}

SolanaSenders == {<<SolPayer, 1700000000, 100>>, <<SolB, 1700000600, 101>>}

RpcUrls ==
    {Str("https://mainnet.base.org"), Str("https://api.mainnet-beta.solana.com")}

EVMProofs ==
    { [t |-> "object", txHash |-> h, network |-> Str(n),
       from |-> Str(m[1]), timestamp |-> Num(m[2]), blockNumber |-> Num(m[3]),
       to |-> to, amount |-> Str(a)] :
        m \in EVMSenders,
        h \in {Str(<<>>), Str(TxId), Undefined},
        n \in {"base-mainnet", "polygon"},
        to \in {Str(EvmA), Str(EvmALower), Str(EvmB), Undefined},
        a \in AmountStrings \cup {PaddedOne} }

SolanaProofs ==
    { [t |-> "object", txHash |-> Str(hs[1]), signature |-> Str(hs[2]),
       network |-> Str(n), from |-> Str(m[1]), timestamp |-> Num(m[2]),
       blockNumber |-> Num(m[3]), slot |-> Num(m[3]), to |-> to,
       amount |-> Str(a), confirmationStatus |-> Str(c)] :
        m \in SolanaSenders,
        hs \in {<<>>, TxId} \X {<<>>, TxId},
        n \in {"solana-mainnet", "solana-devnet"},
        to \in {Str(SolA), Str(SolALower), Str(SolB), Undefined},
        a \in AmountStrings,
        c \in ConfirmationStatus }

ProofValues == EVMProofs \cup SolanaProofs \cup {Undefined}

Assets == {Undefined, [t |-> "object", address |-> Str(UsdcBase)]}

Prices ==
    { IF as = Undefined
      THEN [t |-> "object", amount |-> Str(a), currency |-> "ETH"]
      ELSE [t |-> "object", amount |-> Str(a), currency |-> "USDC", asset |-> as] :
        a \in AmountStrings, as \in Assets }

Recipients ==
    { [t |-> "object", address |-> Str(EvmA)],
      [t |-> "object", address |-> Str(SolA)],
      [t |-> "object"] }

\* specifications handed to the verifiers; a missing price or recipient,
\* or no specification at all, stands for a malformed call
VerifySpecValues ==
    { [t |-> "object", network |-> Str(n), price |-> pr, recipient |-> rc] :
        n \in {"base-mainnet", "polygon", "solana-mainnet"},
        pr \in Prices \cup {Undefined},
        rc \in Recipients \cup {Undefined} } \cup {Undefined}

Pending == [state |-> "pending"]

NotCalled == [type |-> "none"]

(***************************************************************************)
(* Server route: the POST handler of the Next.js example, one run per      *)
(* request; the runs interleave at every await                             *)
(***************************************************************************)
Requests == 1..NumRequests

\* no request is being handled (the adapter functions are called directly)
NoRequests ==
    /\ pc = [r \in Requests |-> "done"]
    /\ paymentHeader = [r \in Requests |-> "unread"]
    /\ verified = [r \in Requests |-> "unknown"]
    /\ logic = [r \in Requests |-> "not run"]
    /\ settle = [r \in Requests |-> "not called"]
    /\ status = [r \in Requests |-> 0]

ServerInit ==
    /\ proof = Undefined
    /\ spec = Undefined
    /\ rpcUrl = Undefined
    /\ recentBlockhash = Undefined
    /\ feePayer = Undefined
    /\ op = "none"
    /\ result = NotCalled
    /\ pc = [r \in Requests |-> "POST"]
    /\ paymentHeader = [r \in Requests |-> "unread"]
    /\ verified = [r \in Requests |-> "unknown"]
    /\ logic = [r \in Requests |-> "not run"]
    /\ settle = [r \in Requests |-> "not called"]
    /\ status = [r \in Requests |-> 0]

\* 1. const paymentHeader = x402.extractPayment(req.headers);
\*    if (!paymentHeader) await x402.create402Response(...)
\* 2. else await x402.createPaymentRequirements(...)
ExtractPayment(r) ==
    /\ pc[r] = "POST"
    /\ \E h \in {"absent", "present"} :
          /\ paymentHeader' = [paymentHeader EXCEPT ![r] = h]
          /\ pc' = [pc EXCEPT ![r] = IF h = "absent" THEN "create402Response"
                                     ELSE "createPaymentRequirements"]
    /\ UNCHANGED <<adapterVars, verified, logic, settle, status>>

\* return NextResponse.json(response.body, { status: response.status });
\* response is a 402 envelope
Return402Response(r) ==
    /\ pc[r] = "create402Response"
    /\ status' = [status EXCEPT ![r] = 402]
    /\ pc' = [pc EXCEPT ![r] = "done"]
    /\ UNCHANGED <<adapterVars, paymentHeader, verified, logic, settle>>

\* createPaymentRequirements resolved;
\* 3. await x402.verifyPayment(paymentHeader, paymentRequirements)
CallVerifyPayment(r) ==
    /\ pc[r] = "createPaymentRequirements"
    /\ pc' = [pc EXCEPT ![r] = "verifyPayment"]
    /\ UNCHANGED <<adapterVars, paymentHeader, verified, logic, settle, status>>

\* the mutant: the handler goes on to the business logic whatever
\* verifyPayment resolved to
VerifyPaymentResolves_NoCheck(r) ==
    /\ pc[r] = "verifyPayment"
    /\ \E v \in {"true", "false"} :
          /\ verified' = [verified EXCEPT ![r] = v]
          /\ logic' = [logic EXCEPT ![r] = "running"]
          /\ pc' = [pc EXCEPT ![r] = "yourBusinessLogic"]
          /\ UNCHANGED status
    /\ UNCHANGED <<adapterVars, paymentHeader, settle>>

\* verifyPayment resolved to verified;
\*    if (!verified) return NextResponse.json({error}, { status: 402 });
\* 4. await yourBusinessLogic(req)
VerifyPaymentResolves(r) ==
    /\ pc[r] = "verifyPayment"
    /\ \E v \in {"true", "false"} :
          /\ verified' = [verified EXCEPT ![r] = v]
          /\ IF v = "false"
             THEN /\ status' = [status EXCEPT ![r] = 402]
                  /\ pc' = [pc EXCEPT ![r] = "done"]
                  /\ UNCHANGED logic
             ELSE /\ logic' = [logic EXCEPT ![r] = "running"]
                  /\ pc' = [pc EXCEPT ![r] = "yourBusinessLogic"]
                  /\ UNCHANGED status
    /\ UNCHANGED <<adapterVars, paymentHeader, settle>>

\* yourBusinessLogic resolved;
\* 5. await x402.settlePayment(paymentHeader, paymentRequirements)
CallSettlePayment(r) ==
    /\ pc[r] = "yourBusinessLogic"
    /\ logic' = [logic EXCEPT ![r] = "returned"]
    /\ settle' = [settle EXCEPT ![r] = "called"]
    /\ pc' = [pc EXCEPT ![r] = "settlePayment"]
    /\ UNCHANGED <<adapterVars, paymentHeader, verified, status>>

\* settlePayment resolved; 6. return NextResponse.json(result)
ReturnResult(r) ==
    /\ pc[r] = "settlePayment"
    /\ settle' = [settle EXCEPT ![r] = "settled"]
    /\ status' = [status EXCEPT ![r] = 200]
    /\ pc' = [pc EXCEPT ![r] = "done"]
    /\ UNCHANGED <<adapterVars, paymentHeader, verified, logic>>

\* the awaits of the handler whose promise may reject: the caller's business
\* logic, and settlePayment, whose failure the handler class surfaces; its
\* extractPayment, create402Response, createPaymentRequirements and
\* verifyPayment report every failure through their result
RejectingAwaits == {"yourBusinessLogic", "settlePayment"}

\* the awaited promise rejected: the handler has no try/catch, so its own
\* promise rejects and the framework answers 500
AwaitRejects(r) ==
    /\ pc[r] \in RejectingAwaits
    /\ logic' = [logic EXCEPT ![r] = IF pc[r] = "yourBusinessLogic" THEN "threw" ELSE @]
    /\ settle' = [settle EXCEPT ![r] = IF pc[r] = "settlePayment" THEN "failed" ELSE @]
    /\ status' = [status EXCEPT ![r] = 500]
    /\ pc' = [pc EXCEPT ![r] = "done"]
    /\ UNCHANGED <<adapterVars, paymentHeader, verified>>

ServerNext ==
    \E r \in Requests :
        \/ ExtractPayment(r)
        \/ Return402Response(r)
        \/ CallVerifyPayment(r)
        \/ VerifyPaymentResolves(r)
        \/ CallSettlePayment(r)
        \/ ReturnResult(r)
        \/ AwaitRejects(r)

ServerSpec == ServerInit /\ [][ServerNext]_vars

(***************************************************************************)
(* Verification: one call of a verifier on a drawn proof and specification *)
(***************************************************************************)
VerifyInit ==
    /\ proof \in ProofValues
    /\ spec \in VerifySpecValues
    /\ rpcUrl \in RpcUrls
    /\ recentBlockhash = Undefined
    /\ feePayer = Undefined
    /\ op = "none"
    /\ result = Pending
    /\ NoRequests

CallVerifyEVMPayment ==
    /\ op = "none"
    /\ op' = "verifyEVMPayment"
    /\ result' = verifyEVMPayment(proof, spec, rpcUrl)
    /\ UNCHANGED <<proof, spec, rpcUrl, recentBlockhash, feePayer, serverVars>>

CallVerifySolanaPayment ==
    /\ op = "none"
    /\ op' = "verifySolanaPayment"
    /\ result' = verifySolanaPayment(proof, spec, rpcUrl)
    /\ UNCHANGED <<proof, spec, rpcUrl, recentBlockhash, feePayer, serverVars>>

VerifyNext == CallVerifyEVMPayment \/ CallVerifySolanaPayment

VerifySpec == VerifyInit /\ [][VerifyNext]_vars

(***************************************************************************)
(* Transaction building: one call of a builder on a drawn specification    *)
(***************************************************************************)
BuildAssets ==
    { Undefined,
      [t |-> "object", address |-> Str(ZeroAddress)],
      [t |-> "object", address |-> Str(NativeSentinel)],
      [t |-> "object", address |-> Str(UsdcBase)],
      [t |-> "object", address |-> Str(UsdcSolana)] }

\* 2^64 + 5, above what an unsigned 64-bit field holds
TwoTo64Plus5 ==
    <<"1", "8", "4", "4", "6", "7", "4", "4", "0", "7", "3", "7", "0", "9",
      "5", "5", "1", "6", "2", "1">>

\* 2^256, one more than the largest uint256
TwoTo256 ==
    <<"1", "1", "5", "7", "9", "2", "0", "8", "9", "2", "3", "7", "3", "1",
      "6", "1", "9", "5", "4", "2", "3", "5", "7", "0", "9", "8", "5", "0",
      "0", "8", "6", "8", "7", "9", "0", "7", "8", "5", "3", "2", "6", "9",
      "9", "8", "4", "6", "6", "5", "6", "4", "0", "5", "6", "4", "0", "3",
      "9", "4", "5", "7", "5", "8", "4", "0", "0", "7", "9", "1", "3", "1",
      "2", "9", "6", "3", "9", "9", "3", "6">>

BuildPrices ==
    { IF as = Undefined
      THEN [t |-> "object", amount |-> Str(a), currency |-> "ETH"]
      ELSE [t |-> "object", amount |-> Str(a), currency |-> "USDC", asset |-> as] :
        a \in AmountStrings \cup {QuotedWei, TwoTo64Plus5, TwoTo256},
        as \in BuildAssets }

BuildSpecValues ==
    { [t |-> "object", network |-> Str(n), price |-> pr,
       recipient |-> [t |-> "object", address |-> Str(rc)]] :
        n \in X402Network,
        pr \in BuildPrices,
        rc \in {EvmA, SolA, SolPayer, UsdcSolana} }

BlockhashA == Repeat(<<"G", "h", "7">>, 11)

BlockhashB == Repeat(<<"4", "v", "J">>, 11)

BuildInit ==
    /\ proof = Undefined
    /\ spec \in BuildSpecValues
    /\ rpcUrl = Undefined
    /\ recentBlockhash \in {Str(BlockhashA), Str(BlockhashB)}
    /\ feePayer \in {Str(SolPayer), Str(SolB)}
    /\ op = "none"
    /\ result = NotCalled
    /\ NoRequests

CallCreateEVMTransactionRequest ==
    /\ op = "none"
    /\ op' = "createEVMTransactionRequest"
    /\ result' = createEVMTransactionRequest(spec)
    /\ UNCHANGED <<proof, spec, rpcUrl, recentBlockhash, feePayer, serverVars>>

CallCreateSolanaTransactionRequest ==
    /\ op = "none"
    /\ op' = "createSolanaTransactionRequest"
    /\ result' = createSolanaTransactionRequest(spec, recentBlockhash, feePayer)
    /\ UNCHANGED <<proof, spec, rpcUrl, recentBlockhash, feePayer, serverVars>>

BuildNext == CallCreateEVMTransactionRequest \/ CallCreateSolanaTransactionRequest

BuildSpec == BuildInit /\ [][BuildNext]_vars

(***************************************************************************)
(* Properties of the verifiers                                             *)
(***************************************************************************)
SameLetter(c, d) ==
    \/ c = d
    \/ \E i \in 1..26 : {c, d} = {UpperLetters[i], LowerLetters[i]}

\* the strings a and b are equal but for the case of their letters
EqualUpToCase(a, b) ==
    /\ Len(a) = Len(b)
    /\ \A i \in 1..Len(a) : SameLetter(a[i], b[i])

ProofField(f) == IF proof = Undefined THEN Undefined ELSE Get(proof, f)

SpecRecipientAddress ==
    IF Get(spec, "recipient") = Undefined THEN Undefined
    ELSE Get(spec.recipient, "address")

SpecAmount ==
    IF Get(spec, "price") = Undefined THEN Undefined ELSE Get(spec.price, "amount")

RecipientDiffersBeyondCase ==
    IF IsString(ProofField("to")) /\ IsString(SpecRecipientAddress)
    THEN ~EqualUpToCase(ProofField("to").v, SpecRecipientAddress.v)
    ELSE ProofField("to") # SpecRecipientAddress

RecipientDiffersOnlyInCase ==
    /\ IsString(ProofField("to"))
    /\ IsString(SpecRecipientAddress)
    /\ ProofField("to") # SpecRecipientAddress
    /\ EqualUpToCase(ProofField("to").v, SpecRecipientAddress.v)

RecipientSame ==
    IsString(ProofField("to")) /\ ProofField("to") = SpecRecipientAddress

AmountSame == IsString(ProofField("amount")) /\ ProofField("amount") = SpecAmount

NetworkSame == ProofField("network") = Get(spec, "network")

\* C1: verifyEVMPayment resolves to false whenever the proof's recipient
\* differs from the specification's by more than letter case, or the amounts
\* differ, or the networks differ, whatever the other fields are; a proof
\* whose recipient differs only in letter case, with equal amount and network
\* and a non-empty txHash, is accepted.
C1_EVMRejectsAnyMismatch ==
    op = "verifyEVMPayment" =>
        /\ ( \/ RecipientDiffersBeyondCase
             \/ ProofField("amount") # SpecAmount
             \/ ProofField("network") # Get(spec, "network") )
           => result = Fulfilled(FALSE)
        /\ ( /\ RecipientDiffersOnlyInCase
             /\ AmountSame
             /\ NetworkSame
             /\ Truthy(ProofField("txHash")) )
           => result = Fulfilled(TRUE)

\* a proof that matches in everything but the network has been rejected
C1_Witness ==
    /\ op = "verifyEVMPayment"
    /\ RecipientDiffersOnlyInCase
    /\ AmountSame
    /\ ~NetworkSame
    /\ Truthy(ProofField("txHash"))
    /\ result = Fulfilled(FALSE)

\* C2: verifySolanaPayment resolves to false for every proof whose
\* confirmationStatus is processed or confirmed, even when recipient, amount,
\* network and signature match exactly; among proofs whose other fields match,
\* exactly the finalized ones are accepted.
C2_SolanaOnlyFinalized ==
    op = "verifySolanaPayment" =>
        /\ ProofField("confirmationStatus") \in {Str("processed"), Str("confirmed")}
           => result = Fulfilled(FALSE)
        /\ ( /\ RecipientSame
             /\ AmountSame
             /\ NetworkSame
             /\ Truthy(ProofField("signature")) )
           => ( result = Fulfilled(TRUE)
                  <=> ProofField("confirmationStatus") = Str("finalized") )

\* a confirmed, not yet finalized, proof that matches in every other field
\* has been rejected
C2_Witness ==
    /\ op = "verifySolanaPayment"
    /\ RecipientSame
    /\ AmountSame
    /\ NetworkSame
    /\ Truthy(ProofField("signature"))
    /\ ProofField("confirmationStatus") = Str("confirmed")
    /\ result = Fulfilled(FALSE)

\* C3: verifySolanaPayment compares the recipient exactly: a finalized proof
\* whose recipient differs from the specification's only in letter case, all
\* other fields matching, is rejected.
C3_SolanaRecipientExact ==
    ( /\ op = "verifySolanaPayment"
      /\ RecipientDiffersOnlyInCase
      /\ AmountSame
      /\ NetworkSame
      /\ Truthy(ProofField("signature"))
      /\ ProofField("confirmationStatus") = Str("finalized") )
    => result = Fulfilled(FALSE)

\* the proof or the specification lacks a field the comparison reads
MalformedInput ==
    \/ proof = Undefined
    \/ ~IsString(ProofField("to"))
    \/ ~IsString(SpecRecipientAddress)
    \/ Get(spec, "price") = Undefined

\* C9: both verifiers fail closed: for every input, also one with missing
\* fields, the returned promise is fulfilled with a boolean and never
\* rejected, and an input that makes the comparison fail internally yields
\* false.
C9_VerifiersFailClosed ==
    op \in {"verifyEVMPayment", "verifySolanaPayment"} =>
        /\ result \in {Fulfilled(TRUE), Fulfilled(FALSE)}
        /\ MalformedInput => result = Fulfilled(FALSE)

\* verifyEVMPayment was called with a proof that has no recipient and a
\* specification that has none either, and resolved to false
C9_Witness ==
    /\ op = "verifyEVMPayment"
    /\ proof # Undefined
    /\ Get(proof, "to") = Undefined
    /\ Get(spec, "recipient") = Undefined
    /\ result = Fulfilled(FALSE)

RecipientEqualIgnoringCase ==
    /\ IsString(ProofField("to"))
    /\ IsString(SpecRecipientAddress)
    /\ EqualUpToCase(ProofField("to").v, SpecRecipientAddress.v)

\* C12: verifyEVMPayment resolves to true if and only if the lower-cased
\* recipients are equal, proof.amount is the same string as price.amount,
\* the networks are equal and proof.txHash is a non-empty string; amounts
\* that are equal as numbers but written differently do not match, and an
\* empty or missing txHash is rejected.
C12_EVMAcceptsExactly ==
    op = "verifyEVMPayment" =>
        ( result = Fulfilled(TRUE)
            <=> ( /\ RecipientEqualIgnoringCase
                  /\ AmountSame
                  /\ NetworkSame
                  /\ IsString(ProofField("txHash"))
                  /\ ProofField("txHash").v # <<>> ) )

\* a proof that pays "01" against a price of "1", everything else matching,
\* has been rejected
C12_Witness ==
    /\ op = "verifyEVMPayment"
    /\ RecipientEqualIgnoringCase
    /\ NetworkSame
    /\ Truthy(ProofField("txHash"))
    /\ IsString(ProofField("amount")) /\ IsString(SpecAmount)
    /\ ProofField("amount") # SpecAmount
    /\ BigInt(ProofField("amount").v) = BigInt(SpecAmount.v)
    /\ result = Fulfilled(FALSE)

\* the object o with its property f set to v, or removed when v is undefined
SetField(o, f, v) ==
    IF v = Undefined
    THEN [k \in DOMAIN o \ {f} |-> o[k]]
    ELSE [k \in DOMAIN o \cup {f} |-> IF k = f THEN v ELSE o[k]]

\* the result of the verifier that was called, on another proof,
\* specification and endpoint
Verdict(p, s, url) ==
    IF op = "verifyEVMPayment"
    THEN verifyEVMPayment(p, s, url)
    ELSE verifySolanaPayment(p, s, url)

HasPrice == spec # Undefined /\ Get(spec, "price") # Undefined

\* C15: the result of either verifier does not depend on spec.price.asset,
\* spec.price.currency, the rpcUrl argument, proof.from, proof.timestamp or
\* proof.blockNumber: replacing any of them, the other fields kept, gives the
\* same result, so a proof accepted for a native-token specification is
\* accepted for a token-asset specification too.
C15_VerdictIgnoresAssetAndEndpoint ==
    op # "none" =>
        /\ \A url \in RpcUrls \ {rpcUrl} : Verdict(proof, spec, url) = result
        /\ proof # Undefined =>
              /\ \A a \in {Undefined, Str(EvmA), Str(SolPayer)} \ {proof.from} :
                    Verdict(SetField(proof, "from", a), spec, rpcUrl) = result
              /\ \A n \in {Undefined, Num(1700000600)} \ {proof.timestamp} :
                    Verdict(SetField(proof, "timestamp", n), spec, rpcUrl) = result
              /\ \A n \in {Undefined, Num(101)} \ {proof.blockNumber} :
                    Verdict(SetField(proof, "blockNumber", n), spec, rpcUrl) = result
        /\ HasPrice =>
              /\ \A as \in Assets \ {Get(spec.price, "asset")} :
                    Verdict(proof, [spec EXCEPT !.price = SetField(@, "asset", as)],
                            rpcUrl) = result
              /\ \A cur \in {"ETH", "USDC"} \ {spec.price.currency} :
                    Verdict(proof, [spec EXCEPT !.price.currency = cur], rpcUrl) = result

\* a proof accepted for a token-asset specification, through an endpoint of
\* another chain and sent by the recipient itself
C15_Witness ==
    /\ op = "verifyEVMPayment"
    /\ HasPrice
    /\ Get(spec.price, "asset") # Undefined
    /\ rpcUrl = Str("https://api.mainnet-beta.solana.com")
    /\ ProofField("from") = SpecRecipientAddress
    /\ result = Fulfilled(TRUE)
    /\ verifyEVMPayment(proof, [spec EXCEPT !.price = SetField(@, "asset", Undefined)],
                        Str("https://mainnet.base.org")) = Fulfilled(TRUE)

\* C16: verifySolanaPayment decides whether a transaction identifier is
\* present from proof.signature alone: a finalized proof that matches in
\* recipient, amount and network is accepted exactly when its signature is
\* non-empty, whatever its txHash; verifyEVMPayment decides it from
\* proof.txHash, whatever the signature.
C16_SolanaPresenceFromSignature ==
    /\ ( /\ op = "verifySolanaPayment"
         /\ RecipientSame
         /\ AmountSame
         /\ NetworkSame
         /\ ProofField("confirmationStatus") = Str("finalized") )
       => ( result = Fulfilled(TRUE) <=> Truthy(ProofField("signature")) )
    /\ ( /\ op = "verifyEVMPayment"
         /\ RecipientEqualIgnoringCase
         /\ AmountSame
         /\ NetworkSame )
       => ( result = Fulfilled(TRUE) <=> Truthy(ProofField("txHash")) )

\* a finalized, matching proof with a signature and an empty txHash has been
\* accepted by the Solana verifier
C16_Witness ==
    /\ op = "verifySolanaPayment"
    /\ RecipientSame
    /\ AmountSame
    /\ NetworkSame
    /\ ProofField("confirmationStatus") = Str("finalized")
    /\ ProofField("signature") = Str(TxId)
    /\ ProofField("txHash") = Str(<<>>)
    /\ result = Fulfilled(TRUE)

\* the same proof shape with the two identifiers exchanged has been
\* rejected by the Solana verifier, and handed to the EVM verifier the
\* proof with only a signature has been rejected too
C16_WitnessRejected ==
    \/ /\ op = "verifySolanaPayment"
       /\ RecipientSame /\ AmountSame /\ NetworkSame
       /\ ProofField("confirmationStatus") = Str("finalized")
       /\ ProofField("signature") = Str(<<>>)
       /\ ProofField("txHash") = Str(TxId)
       /\ result = Fulfilled(FALSE)
    \/ /\ op = "verifyEVMPayment"
       /\ RecipientSame /\ AmountSame /\ NetworkSame
       /\ ProofField("signature") = Str(TxId)
       /\ ProofField("txHash") = Str(<<>>)
       /\ result = Fulfilled(FALSE)

(***************************************************************************)
(* Properties of the builders                                              *)
(***************************************************************************)
AssetAbsent == Get(spec.price, "asset") = Undefined

AssetIs(a) == ~AssetAbsent /\ spec.price.asset.address = Str(a)

Returned == result.type = "normal"

\* ls * m + a on a number kept as limbs of four decimal digits (most
\* significant first), for small m and a; out collects the limbs produced
RECURSIVE MulAdd(_, _, _, _)
MulAdd(ls, m, a, out) ==
    IF ls = <<>>
    THEN (IF a = 0 THEN out
          ELSE MulAdd(<<>>, m, a \div 10000, <<a % 10000>> \o out))
    ELSE MulAdd(SubSeq(ls, 1, Len(ls) - 1), m, (ls[Len(ls)] * m + a) \div 10000,
                <<(ls[Len(ls)] * m + a) % 10000>> \o out)

\* the number written by the digits xs (most significant first) in the given
\* base, as limbs; acc is the value of the digits already read
RECURSIVE ValueOf(_, _, _)
ValueOf(xs, base, acc) ==
    IF xs = <<>> THEN acc
    ELSE LET next == MulAdd(acc, base, Head(xs), <<>>)
         IN  IF Len(next) = 0 THEN ValueOf(Tail(xs), base, <<>>)
             ELSE ValueOf(Tail(xs), base, next)

\* the decimal string of a number kept as limbs, without leading zeros
LimbsToDecimal(ls) ==
    LET digit(i) == LET l == ls[((i - 1) \div 4) + 1]
                        k == (i - 1) % 4
                    IN  CASE k = 0 -> l \div 1000
                          [] k = 1 -> (l \div 100) % 10
                          [] k = 2 -> (l \div 10) % 10
                          [] k = 3 -> l % 10
    IN  StripLeadingChar([i \in 1..(4 * Len(ls)) |-> DecimalDigits[digit(i) + 1]], "0")

HexValue(c) == (CHOOSE i \in 1..16 : HexDigits[i] = c) - 1

\* the decimal string of the number a string of hex digits denotes, read
\* four hex digits at a time
HexToDecimal(h) ==
    LET n == (Len(h) + 3) \div 4
        hv(i) == IF i >= 1 THEN HexValue(h[i]) ELSE 0
        chunk(k) == LET e == Len(h) - 4 * (n - k)
                    IN  hv(e - 3) * 4096 + hv(e - 2) * 256 + hv(e - 1) * 16 + hv(e)
        ls == ValueOf([k \in 1..n |-> chunk(k)], 65536, <<>>)
    IN  IF ls = <<>> THEN <<"0">> ELSE LimbsToDecimal(ls)

\* C4: for a specification whose asset is absent or the zero address,
\* createEVMTransactionRequest returns a native transfer: `to` is the
\* recipient, `value` is the amount string unchanged, and there is no `data`.
C4_EVMNativeTransfer ==
    (op = "createEVMTransactionRequest" /\ (AssetAbsent \/ AssetIs(ZeroAddress))) =>
        /\ Returned
        /\ result.value.to = spec.recipient.address
        /\ "value" \in DOMAIN result.value
        /\ result.value.value = spec.price.amount
        /\ "data" \notin DOMAIN result.value

\* a zero-address specification has been built into a native transfer
C4_Witness ==
    /\ op = "createEVMTransactionRequest"
    /\ AssetIs(ZeroAddress)
    /\ Returned
    /\ result.value.value = Str(QuotedWei)

\* C5: for a specification with a set, non-zero asset address the request
\* is never a native transfer: it has no `value`, `to` is the asset address,
\* and `data` is the selector 0xa9059cbb, then the recipient without its 0x
\* left-padded with zeros to 64 digits, then the amount field.
C5_EVMTokenTransfer ==
    (op = "createEVMTransactionRequest" /\ ~AssetAbsent /\ ~AssetIs(ZeroAddress)) =>
        /\ Returned
        /\ "value" \notin DOMAIN result.value
        /\ result.value.to = spec.price.asset.address
        /\ "data" \in DOMAIN result.value
        /\ LET d == result.value.data.v
               r == spec.recipient.address.v
               bare == SubSeq(r, 3, Len(r))
           IN  /\ Len(d) >= 74
               /\ SubSeq(d, 1, 10) = <<"0", "x", "a", "9", "0", "5", "9", "c", "b", "b">>
               /\ Len(bare) <= 64
               /\ SubSeq(d, 75 - Len(bare), 74) = bare
               /\ \A i \in 11..(74 - Len(bare)) : d[i] = "0"
               /\ HexToDecimal(SubSeq(d, 75, Len(d))) = spec.price.amount.v

\* a USDC specification for the quoted price has been built into a token
\* call
C5_Witness ==
    /\ op = "createEVMTransactionRequest"
    /\ AssetIs(UsdcBase)
    /\ spec.recipient.address = Str(EvmA)
    /\ spec.price.amount = Str(QuotedWei)
    /\ Returned
    /\ "data" \in DOMAIN result.value

\* C6: createEVMTransactionRequest fails with UnsupportedNetwork, returning
\* no request, whenever the network is not an EVM network.
C6_EVMUnsupportedNetwork ==
    (op = "createEVMTransactionRequest" /\ spec.network.v \notin EVMNetwork) =>
        result = Throw("UnsupportedNetwork")

NativeSOLShape ==
    /\ Returned
    /\ result.value.recentBlockhash = recentBlockhash
    /\ result.value.feePayer = feePayer
    /\ Len(result.value.instructions) = 1
    /\ LET ix == result.value.instructions[1]
       IN  /\ ix.programId = Str(Repeat(<<"1">>, 32))
           /\ ix.keys = << [pubkey |-> feePayer, isSigner |-> TRUE, isWritable |-> TRUE],
                           [pubkey |-> spec.recipient.address, isSigner |-> FALSE,
                            isWritable |-> TRUE] >>

Ata(owner, mint) == Str(owner.v \o <<"_">> \o mint.v \o <<"_", "a", "t", "a">>)

TokenShape ==
    /\ Returned
    /\ Len(result.value.instructions) = 1
    /\ LET ix == result.value.instructions[1]
           mint == spec.price.asset.address
       IN  /\ ix.programId = Str(TokenProgram)
           /\ ix.programId # Str(Repeat(<<"1">>, 32))
           /\ Len(ix.keys) = 4
           /\ ix.keys[1].pubkey = Ata(feePayer, mint)
           /\ ix.keys[3].pubkey = Ata(spec.recipient.address, mint)
           /\ \A i \in 1..Len(ix.keys) :
                 ix.keys[i].isSigner <=> (i = 4 /\ ix.keys[i].pubkey = feePayer)

RecipientIsAKey ==
    \E i \in 1..Len(result.value.instructions[1].keys) :
        result.value.instructions[1].keys[i].pubkey = spec.recipient.address

\* C8 as claimed: for a token specification the single instruction is on the
\* Token Program, its source and destination are the associated token
\* accounts of (feePayer, mint) and (recipient, mint), feePayer is the only
\* signer, and the raw recipient address never appears as an account key.
C8_SolanaTokenRecipientNeverKey ==
    (op = "createSolanaTransactionRequest" /\ ~AssetAbsent /\ ~AssetIs(NativeSentinel))
        => (TokenShape /\ ~RecipientIsAKey)

\* C8 amended: the raw recipient address appears as an account key only
\* when it is also the fee payer, the mint or the sender's associated token
\* account.
C8_SolanaTokenTransfer ==
    (op = "createSolanaTransactionRequest" /\ ~AssetAbsent /\ ~AssetIs(NativeSentinel))
        => /\ TokenShape
           /\ RecipientIsAKey =>
                spec.recipient.address \in
                    {feePayer, spec.price.asset.address,
                     Ata(feePayer, spec.price.asset.address)}

\* a token specification whose recipient is neither the fee payer nor the
\* mint has been built, and the recipient is not among the keys
C8_Witness ==
    /\ op = "createSolanaTransactionRequest"
    /\ AssetIs(UsdcSolana)
    /\ spec.recipient.address = Str(SolA)
    /\ TokenShape
    /\ ~RecipientIsAKey

\* the decimal string of the unsigned integer the bytes bs hold, least
\* significant byte first
BytesLEToDecimal(bs) ==
    LET ls == ValueOf([i \in 1..Len(bs) |-> bs[Len(bs) + 1 - i]], 256, <<>>)
    IN  IF ls = <<>> THEN <<"0">> ELSE LimbsToDecimal(ls)

InstructionData == result.value.instructions[1].data

\* C13: the Solana instruction data holds exactly the amount as an 8-byte
\* little-endian unsigned integer after the discriminator: 12 bytes for
\* native SOL (4-byte little-endian 2, then the amount), 9 bytes for an SPL
\* token (the byte 3, then the amount), and the 8 amount bytes decode to
\* price.amount, also for amounts of 2^64 or more.
C13_SolanaAmountEncodedExactly ==
    (op = "createSolanaTransactionRequest" /\ Returned) =>
        IF result.value.instructions[1].programId = Str(SystemProgram)
        THEN /\ Len(InstructionData) = 12
             /\ SubSeq(InstructionData, 1, 4) = <<2, 0, 0, 0>>
             /\ BytesLEToDecimal(SubSeq(InstructionData, 5, 12)) = spec.price.amount.v
        ELSE /\ Len(InstructionData) = 9
             /\ InstructionData[1] = 3
             /\ BytesLEToDecimal(SubSeq(InstructionData, 2, 9)) = spec.price.amount.v

\* C14: for a 20-byte recipient the ERC-20 call data is exactly 138
\* characters long and its last 64 hex digits, read as a big-endian unsigned
\* integer, equal price.amount, also for amounts of 2^256 or more.
C14_ERC20DataFixedWidth ==
    ( /\ op = "createEVMTransactionRequest"
      /\ Returned
      /\ "data" \in DOMAIN result.value
      /\ Len(spec.recipient.address.v) = 42 ) =>
        LET d == result.value.data.v
        IN  /\ Len(d) = 138
            /\ HexToDecimal(SubSeq(d, Len(d) - 63, Len(d))) = spec.price.amount.v

\* the CHAIN_IDS key of an EVM network
ChainIdKey(n) ==
    CASE n = "base-mainnet" -> "BASE_MAINNET"
      [] n = "base-sepolia" -> "BASE_SEPOLIA"
      [] n = "polygon" -> "POLYGON"
      [] n = "bsc" -> "BSC"
      [] n = "sei" -> "SEI"
      [] n = "peaq" -> "PEAQ"

\* the chain ids the networks are known by
KnownChainId(n) ==
    CASE n = "base-mainnet" -> 8453
      [] n = "base-sepolia" -> 84532
      [] n = "polygon" -> 137
      [] n = "bsc" -> 56
      [] n = "sei" -> 1329
      [] n = "peaq" -> 3338

\* C17: for every EVM network the request built by
\* createEVMTransactionRequest carries that network's chain id (8453, 84532,
\* 137, 56, 1329, 3338 for base-mainnet, base-sepolia, polygon, bsc, sei,
\* peaq), the value CHAIN_IDS gives it, on the native and on the token path;
\* the same specification on another EVM network yields another chainId.
C17_EVMChainIds ==
    (op = "createEVMTransactionRequest" /\ spec.network.v \in EVMNetwork) =>
        /\ Returned
        /\ "chainId" \in DOMAIN result.value
        /\ result.value.chainId = Num(KnownChainId(spec.network.v))
        /\ result.value.chainId = Num(CHAIN_IDS[ChainIdKey(spec.network.v)])
        /\ \A n \in EVMNetwork \ {spec.network.v} :
              LET other == createEVMTransactionRequest([spec EXCEPT !.network = Str(n)])
              IN  /\ other.type = "normal"
                  /\ other.value.chainId # result.value.chainId

\* a token transfer on bsc has been built with chain id 56
C17_Witness ==
    /\ op = "createEVMTransactionRequest"
    /\ spec.network = Str("bsc")
    /\ AssetIs(UsdcBase)
    /\ Returned
    /\ "data" \in DOMAIN result.value
    /\ result.value.chainId = Num(56)

\* a native transfer on peaq has been built with chain id 3338
C17_WitnessNative ==
    /\ op = "createEVMTransactionRequest"
    /\ spec.network = Str("peaq")
    /\ AssetAbsent
    /\ Returned
    /\ "value" \in DOMAIN result.value
    /\ result.value.chainId = Num(3338)

(***************************************************************************)
(* Properties of the server route                                          *)
(***************************************************************************)
\* C11: in the server request flow, for every request, the business logic
\* runs only after verifyPayment returned true for that request,
\* settlePayment is invoked only after the business logic has run, and a
\* request without a proof header or whose verification returned false gets
\* the 402 response, with neither business logic nor settlement executed.
C11_GatedFlow ==
    \A r \in Requests :
        /\ logic[r] # "not run" => verified[r] = "true"
        /\ settle[r] # "not called" => logic[r] = "returned"
        /\ (paymentHeader[r] = "absent" \/ verified[r] = "false") =>
              /\ logic[r] = "not run"
              /\ settle[r] = "not called"
              /\ status[r] \in {0, 402}
              /\ pc[r] = "done" => status[r] = 402

\* one request was refused with 402 after a failed verification while
\* another one was verified, served and settled
C11_Witness ==
    \E r1, r2 \in Requests :
        /\ verified[r1] = "false" /\ pc[r1] = "done" /\ status[r1] = 402
        /\ verified[r2] = "true" /\ logic[r2] = "returned"
        /\ settle[r2] = "settled" /\ status[r2] = 200

====
